---- MODULE Spec2Model ----
(***************************************************************************)
(* Voice-controlled LED (src/voice.py): main() sets up the GPIO pin, the   *)
(* Vosk recognizer and the PyAudio stream, then loops reading a frame,     *)
(* feeding it to the recognizer and switching the LED on a final result.   *)
(* The model follows main() statement by statement.  The libraries         *)
(* (RPi.GPIO, vosk, pyaudio) are the environment: what they return, and    *)
(* whether a call raises, is chosen nondeterministically.                  *)
(***************************************************************************)
EXTENDS Integers, Sequences, FiniteSets, TLC

(* ---------------------------- program constants ------------------------ *)
LED_PIN == 18
BUFFER_SIZE == 4096

(* ------------------------------- bounds -------------------------------- *)
\* frames the audio device delivers in one run
MaxFrames == 3
\* length of the exhaustively enumerated recognizer texts
MaxTextLen == 3

(* ------------------------------- texts --------------------------------- *)
\* A text is a sequence of one-character strings.
Alphabet == {"o", "n", "f", "O"}

EnumTexts == UNION {[1..k -> Alphabet] : k \in 0..MaxTextLen}

\* phrases of the documentation and of the keyword edge cases
SampleTexts ==
  { <<"t","u","r","n">>,
    <<"t","u","r","n"," ","o","n">>,
    <<"t","u","r","n"," ","o","n"," ","t","h","e"," ","l","i","g","h","t">>,
    <<"T","u","r","n"," ","O","N"," ","t","h","e"," ","l","i","g","h","t">>,
    <<"p","l","e","a","s","e"," ","t","u","r","n"," ","o","f","f">>,
    <<"h","e","l","l","o"," ","w","o","r","l","d">>,
    <<"o","n","i","o","n"," ","s","o","u","p">>,
    <<"o","f","f">>,
    <<"O","F","F">>,
    <<"o","f","f","i","c","e">>,
    <<"o","f","f"," ","o","n">>,
    <<"o","n"," ","o","f","f">> }

\* what the recognizer can report as the text of a completed utterance
FinalTexts == EnumTexts \cup SampleTexts

\* what the recognizer can report as the text of an utterance in progress
PartialTexts ==
  { <<>>, <<"t","u","r","n">>, <<"t","u","r","n"," ","o","n">>, <<"o","f","f">> }

\* str.lower() on one character
LowerChar(c) ==
  CASE c = "O" -> "o"
    [] c = "N" -> "n"
    [] c = "F" -> "f"
    [] c = "T" -> "t"
    [] OTHER -> c

\* str.lower(), line 99
Lower(s) == [i \in 1..Len(s) |-> LowerChar(s[i])]

\* Python's `sub in s` on strings: scan the start positions left to right
RECURSIVE FindFrom(_, _, _)
FindFrom(sub, s, i) ==
  IF i + Len(sub) - 1 > Len(s) THEN FALSE
  ELSE IF SubSeq(s, i, i + Len(sub) - 1) = sub THEN TRUE
  ELSE FindFrom(sub, s, i + 1)

str_in(sub, s) == FindFrom(sub, s, 1)

\* recognizer.Result() is the JSON document {"text" : "<text>"} as a string
ResultJson(text) ==
  <<"{", "\n", " ", " ", "\"", "t", "e", "x", "t", "\"", " ", ":", " ", "\"">>
    \o text \o <<"\"", "\n", "}">>

\* recognizer.PartialResult() is the JSON document {"partial" : "<text>"}
PartialJson(text) ==
  <<"{", "\n", " ", " ", "\"", "p", "a", "r", "t", "i", "a", "l", "\"", " ", ":", " ", "\"">>
    \o text \o <<"\"", "\n", "}">>

(* ------------------------------- state --------------------------------- *)
VARIABLES
  pc,                \* position of main()
  model_path_exists, \* os.path.exists(MODEL_PATH), fixed for the run
  pin_mode,          \* mode of LED_PIN: "IN" (default, after cleanup) or "OUT"
  led,               \* level of the LED: "LOW" or "HIGH"
  gpio_log,          \* levels written with GPIO.output, in call order
  recognizer,        \* the KaldiRecognizer handle: "none", "live", "released"
  p,                 \* the PyAudio instance: "none", "live", "terminated"
  stream,            \* the stream: "none", "open", "started", "stopped", "closed"
  captured,          \* lengths of the frames stream.read returned, in order
  data,              \* index into captured of the frame held in `data`, 0 if none
  fed,               \* indices of the frames passed to AcceptWaveform, in order
  event,             \* outcome of this iteration: "none", "Skip", "Final", "Partial"
  result,            \* string held in `result` / `partial_result`
  command_text,      \* argument of the last handle_command call of the iteration
  exc,               \* exception propagating, "none" if none
  primary,           \* what ended the loop: "none", "KeyboardInterrupt" or an error
  cleanup_log,       \* calls made by the finally block, in order
  exit_status,       \* "running", "ok", or the exception the run ends with
  heard              \* history: how many of Partial("turn"), Partial("turn on"),
                     \* Final("turn on the light") the latest recognizer events match

vars == <<pc, model_path_exists, pin_mode, led, gpio_log, recognizer, p, stream,
          captured, data, fed, event, result, command_text, exc, primary,
          cleanup_log, exit_status, heard>>

SetupPcs == {"setup_gpio", "setup_recognizer", "setup_audio_stream", "listening"}
TryPcs == {"read", "check_len", "accept", "result", "handle_command", "partial_result"}
FinallyPcs == {"gpio_cleanup", "stop_stream", "close", "terminate", "exiting"}

Init ==
  /\ pc = "setup_gpio"
  /\ model_path_exists \in BOOLEAN
  /\ pin_mode = "IN"
  /\ led = "LOW"
  /\ gpio_log = <<>>
  /\ recognizer = "none"
  /\ p = "none"
  /\ stream = "none"
  /\ captured = <<>>
  /\ data = 0
  /\ fed = <<>>
  /\ event = "none"
  /\ result = <<>>
  /\ command_text = <<>>
  /\ exc = "none"
  /\ primary = "none"
  /\ cleanup_log = <<>>
  /\ exit_status = "running"
  /\ heard = 0

(* ------------------------------ history -------------------------------- *)
\* the text field of a Result() document
TextOf(r) == SubSeq(r, Len(ResultJson(<<>>)) - 2, Len(r) - 3)

Turn == <<"t","u","r","n">>
TurnOn == <<"t","u","r","n"," ","o","n">>
TurnOnTheLight == <<"t","u","r","n"," ","o","n"," ","t","h","e"," ","l","i","g","h","t">>

\* heard after the recognizer reported Partial(text), lines 106-107
HeardAfterPartial(text) ==
  IF text = Turn THEN 1
  ELSE IF text = TurnOn /\ heard = 1 THEN 2
  ELSE 0

\* heard after Final(text) was dispatched, lines 95-102
HeardAfterFinal(text) ==
  IF text = TurnOnTheLight /\ heard = 2 THEN 3 ELSE 0

(* ------------------------------ startup -------------------------------- *)
\* variant of setup_gpio: line 20 writes GPIO.HIGH
setup_gpio_high ==
  /\ pc = "setup_gpio"
  /\ pin_mode' = "OUT"
  /\ led' = "HIGH"
  /\ gpio_log' = Append(gpio_log, "HIGH")
  /\ pc' = "setup_recognizer"
  /\ UNCHANGED <<heard, model_path_exists, recognizer, p, stream, captured, data, fed,
                 event, result, command_text, exc, primary, cleanup_log, exit_status>>

\* setup_gpio(), lines 18-20: BCM numbering, LED_PIN an output, LED off
setup_gpio ==
  /\ pc = "setup_gpio"
  /\ pin_mode' = "OUT"
  /\ led' = "LOW"
  /\ gpio_log' = Append(gpio_log, "LOW")
  /\ pc' = "setup_recognizer"
  /\ UNCHANGED <<heard, model_path_exists, recognizer, p, stream, captured, data, fed,
                 event, result, command_text, exc, primary, cleanup_log, exit_status>>

\* variant of setup_recognizer: the os.path.exists check of line 29 is missing
setup_recognizer_unchecked ==
  /\ pc = "setup_recognizer"
  /\ \E loaded \in BOOLEAN :
       IF loaded
         THEN /\ recognizer' = "live"
              /\ pc' = "setup_audio_stream"
              /\ UNCHANGED <<exc, exit_status>>
         ELSE /\ exc' = "ModelError"
              /\ exit_status' = "ModelError"
              /\ pc' = "done"
              /\ UNCHANGED recognizer
  /\ UNCHANGED <<heard, model_path_exists, pin_mode, led, gpio_log, p, stream, captured,
                 data, fed, event, result, command_text, primary, cleanup_log>>

\* setup_recognizer(), lines 29-37, called outside the try block: a missing
\* model path raises FileNotFoundError, Model()/KaldiRecognizer() may raise
setup_recognizer ==
  /\ pc = "setup_recognizer"
  /\ IF ~model_path_exists
       THEN /\ exc' = "FileNotFoundError"
            /\ exit_status' = "FileNotFoundError"
            /\ pc' = "done"
            /\ UNCHANGED recognizer
       ELSE \E loaded \in BOOLEAN :
              IF loaded
                THEN /\ recognizer' = "live"
                     /\ pc' = "setup_audio_stream"
                     /\ UNCHANGED <<exc, exit_status>>
                ELSE /\ exc' = "ModelError"
                     /\ exit_status' = "ModelError"
                     /\ pc' = "done"
                     /\ UNCHANGED recognizer
  /\ UNCHANGED <<heard, model_path_exists, pin_mode, led, gpio_log, p, stream, captured,
                 data, fed, event, result, command_text, primary, cleanup_log>>

\* setup_audio_stream(), lines 45-49, called outside the try block:
\* PyAudio(), then open() claims the device, then start_stream(); open() and
\* start_stream() may raise
setup_audio_stream ==
  /\ pc = "setup_audio_stream"
  /\ \E outcome \in {"ok", "open_raises", "start_raises"} :
       /\ p' = "live"
       /\ stream' = CASE outcome = "ok" -> "started"
                      [] outcome = "open_raises" -> "none"
                      [] outcome = "start_raises" -> "open"
       /\ IF outcome = "ok"
            THEN /\ pc' = "listening"
                 /\ UNCHANGED <<exc, exit_status>>
            ELSE /\ exc' = "AudioSetupError"
                 /\ exit_status' = "AudioSetupError"
                 /\ pc' = "done"
  /\ UNCHANGED <<heard, model_path_exists, pin_mode, led, gpio_log, recognizer, captured,
                 data, fed, event, result, command_text, primary, cleanup_log>>

\* line 82, the last statement before the try block
print_listening ==
  /\ pc = "listening"
  /\ pc' = "read"
  /\ UNCHANGED <<heard, model_path_exists, pin_mode, led, gpio_log, recognizer, p, stream,
                 captured, data, fed, event, result, command_text, exc, primary,
                 cleanup_log, exit_status>>

(* ------------------------------ the loop ------------------------------- *)
\* an exception other than KeyboardInterrupt raised inside the try block:
\* no except clause matches, control goes to the finally block
RaiseInTry(e) ==
  /\ exc' = e
  /\ primary' = e
  /\ pc' = "gpio_cleanup"

\* line 87: stream.read(BUFFER_SIZE) returns a frame, possibly empty, or raises
stream_read ==
  /\ pc = "read"
  /\ \/ /\ Len(captured) < MaxFrames
        /\ \E n \in {0, BUFFER_SIZE} :
             /\ captured' = Append(captured, n)
             /\ data' = Len(captured) + 1
        /\ pc' = "check_len"
        /\ event' = "none"
        /\ result' = <<>>
        /\ command_text' = <<>>
        /\ UNCHANGED <<exc, primary>>
     \/ /\ RaiseInTry("ReadError")
        /\ UNCHANGED <<captured, data, event, result, command_text>>
  /\ UNCHANGED <<heard, model_path_exists, pin_mode, led, gpio_log, recognizer, p, stream,
                 fed, cleanup_log, exit_status>>

\* variant of check_len: the `continue` of line 91 is missing
check_len_no_skip ==
  /\ pc = "check_len"
  /\ pc' = "accept"
  /\ UNCHANGED <<heard, model_path_exists, pin_mode, led, gpio_log, recognizer, p, stream,
                 captured, data, fed, event, result, command_text, exc, primary,
                 cleanup_log, exit_status>>

\* variant of check_len: line 90 compares with BUFFER_SIZE, so whole frames
\* are skipped as well
check_len_skip_short ==
  /\ pc = "check_len"
  /\ IF captured[data] <= BUFFER_SIZE
       THEN /\ event' = "Skip"
            /\ pc' = "read"
       ELSE /\ pc' = "accept"
            /\ UNCHANGED event
  /\ UNCHANGED <<heard, model_path_exists, pin_mode, led, gpio_log, recognizer, p, stream,
                 captured, data, fed, result, command_text, exc, primary,
                 cleanup_log, exit_status>>

\* lines 90-91: an empty frame is skipped
check_len ==
  /\ pc = "check_len"
  /\ IF captured[data] = 0
       THEN /\ event' = "Skip"
            /\ pc' = "read"
       ELSE /\ pc' = "accept"
            /\ UNCHANGED event
  /\ UNCHANGED <<heard, model_path_exists, pin_mode, led, gpio_log, recognizer, p, stream,
                 captured, data, fed, result, command_text, exc, primary,
                 cleanup_log, exit_status>>

\* variant of AcceptWaveform: the two branches of line 94 are swapped
AcceptWaveform_swapped ==
  /\ pc = "accept"
  /\ fed' = Append(fed, data)
  /\ \/ \E complete \in BOOLEAN :
          /\ event' = IF complete THEN "Final" ELSE "Partial"
          /\ pc' = IF complete THEN "partial_result" ELSE "result"
          /\ UNCHANGED <<exc, primary>>
     \/ /\ RaiseInTry("RecognizerError")
        /\ UNCHANGED event
  /\ UNCHANGED <<heard, model_path_exists, pin_mode, led, gpio_log, recognizer, p, stream,
                 captured, data, result, command_text, cleanup_log, exit_status>>

\* line 94: recognizer.AcceptWaveform(data) reports whether an utterance is
\* complete, or raises
AcceptWaveform ==
  /\ pc = "accept"
  /\ fed' = Append(fed, data)
  /\ \/ \E complete \in BOOLEAN :
          /\ event' = IF complete THEN "Final" ELSE "Partial"
          /\ pc' = IF complete THEN "result" ELSE "partial_result"
          /\ UNCHANGED <<exc, primary>>
     \/ /\ RaiseInTry("RecognizerError")
        /\ UNCHANGED event
  /\ UNCHANGED <<heard, model_path_exists, pin_mode, led, gpio_log, recognizer, p, stream,
                 captured, data, result, command_text, cleanup_log, exit_status>>

\* lines 95-96: result = recognizer.Result()
Result ==
  /\ pc = "result"
  /\ \E text \in FinalTexts : result' = ResultJson(text)
  /\ pc' = "handle_command"
  /\ UNCHANGED <<heard, model_path_exists, pin_mode, led, gpio_log, recognizer, p, stream,
                 captured, data, fed, event, command_text, exc, primary,
                 cleanup_log, exit_status>>

\* variant of handle_command: the two tests of lines 62 and 66 are swapped
handle_command_off_first(text) ==
  IF str_in(<<"o", "f", "f">>, text)
    THEN /\ led' = "LOW"
         /\ gpio_log' = Append(gpio_log, "LOW")
    ELSE IF str_in(<<"o", "n">>, text)
           THEN /\ led' = "HIGH"
                /\ gpio_log' = Append(gpio_log, "HIGH")
           ELSE UNCHANGED <<led, gpio_log>>

\* variant of handle_command: line 66 is `if` instead of `elif`
handle_command_two_ifs(text) ==
  IF str_in(<<"o", "f", "f">>, text)
    THEN /\ led' = "LOW"
         /\ gpio_log' = (IF str_in(<<"o", "n">>, text)
                           THEN gpio_log \o <<"HIGH", "LOW">>
                           ELSE Append(gpio_log, "LOW"))
    ELSE IF str_in(<<"o", "n">>, text)
           THEN /\ led' = "HIGH"
                /\ gpio_log' = Append(gpio_log, "HIGH")
           ELSE UNCHANGED <<led, gpio_log>>

\* variant of handle_command: the "on" branch flips the level instead of
\* writing HIGH
handle_command_toggle(text) ==
  IF str_in(<<"o", "n">>, text)
    THEN /\ led' = (IF led = "HIGH" THEN "LOW" ELSE "HIGH")
         /\ gpio_log' = Append(gpio_log, "HIGH")
    ELSE IF str_in(<<"o", "f", "f">>, text)
           THEN /\ led' = "LOW"
                /\ gpio_log' = Append(gpio_log, "LOW")
           ELSE UNCHANGED <<led, gpio_log>>

\* handle_command(command_text), lines 62-68
handle_command(text) ==
  IF str_in(<<"o", "n">>, text)
    THEN /\ led' = "HIGH"
         /\ gpio_log' = Append(gpio_log, "HIGH")
    ELSE IF str_in(<<"o", "f", "f">>, text)
           THEN /\ led' = "LOW"
                /\ gpio_log' = Append(gpio_log, "LOW")
           ELSE UNCHANGED <<led, gpio_log>>

\* variant of dispatch: the lower() of line 99 is missing
dispatch_no_lower ==
  /\ pc = "handle_command"
  /\ command_text' = result
  /\ handle_command(result)
  /\ heard' = HeardAfterFinal(TextOf(result))
  /\ pc' = "read"
  /\ UNCHANGED <<model_path_exists, pin_mode, recognizer, p, stream, captured,
                 data, fed, event, result, exc, primary, cleanup_log, exit_status>>

\* lines 99-102: command_text = result.lower(); handle_command(command_text)
dispatch ==
  /\ pc = "handle_command"
  /\ command_text' = Lower(result)
  /\ handle_command(Lower(result))
  /\ heard' = HeardAfterFinal(TextOf(result))
  /\ pc' = "read"
  /\ UNCHANGED <<model_path_exists, pin_mode, recognizer, p, stream, captured,
                 data, fed, event, result, exc, primary, cleanup_log, exit_status>>

\* variant of PartialResult: the else branch also dispatches on its text
PartialResult_dispatching ==
  /\ pc = "partial_result"
  /\ \E text \in PartialTexts :
       /\ result' = PartialJson(text)
       /\ heard' = HeardAfterPartial(text)
       /\ IF str_in(<<"o", "n">>, Lower(PartialJson(text)))
            THEN /\ led' = "HIGH"
                 /\ gpio_log' = Append(gpio_log, "HIGH")
            ELSE UNCHANGED <<led, gpio_log>>
  /\ pc' = "read"
  /\ UNCHANGED <<model_path_exists, pin_mode, recognizer, p, stream,
                 captured, data, fed, event, command_text, exc, primary,
                 cleanup_log, exit_status>>

\* lines 106-107: partial_result = recognizer.PartialResult(), printed only
PartialResult ==
  /\ pc = "partial_result"
  /\ \E text \in PartialTexts :
       /\ result' = PartialJson(text)
       /\ heard' = HeardAfterPartial(text)
  /\ pc' = "read"
  /\ UNCHANGED <<model_path_exists, pin_mode, led, gpio_log, recognizer, p, stream,
                 captured, data, fed, event, command_text, exc, primary,
                 cleanup_log, exit_status>>

(* --------------------------- operator interrupt ------------------------ *)
\* Ctrl+C raises KeyboardInterrupt at the statement being executed: inside the
\* try block the except clause of line 109 catches it, before the try block
\* nothing does and the run ends with the traceback
KeyboardInterrupt ==
  /\ pc \in SetupPcs \cup TryPcs
  /\ exc' = "KeyboardInterrupt"
  /\ IF pc \in TryPcs
       THEN /\ primary' = "KeyboardInterrupt"
            /\ pc' = "except"
            /\ UNCHANGED exit_status
       ELSE /\ exit_status' = "KeyboardInterrupt"
            /\ pc' = "done"
            /\ UNCHANGED primary
  /\ UNCHANGED <<heard, model_path_exists, pin_mode, led, gpio_log, recognizer, p, stream,
                 captured, data, fed, event, result, command_text, cleanup_log>>

\* lines 109-111: the interrupt is handled, nothing propagates
except_KeyboardInterrupt ==
  /\ pc = "except"
  /\ exc' = "none"
  /\ pc' = "gpio_cleanup"
  /\ UNCHANGED <<heard, model_path_exists, pin_mode, led, gpio_log, recognizer, p, stream,
                 captured, data, fed, event, result, command_text, primary,
                 cleanup_log, exit_status>>

(* --------------------------- the finally block ------------------------- *)
\* a statement of the finally block raises: the rest of the block is not
\* executed and the new exception is what leaves main()
RaiseInFinally ==
  /\ exc' = "CleanupError"
  /\ exit_status' = "CleanupError"
  /\ pc' = "done"

\* variant of GPIO_cleanup: line 115 is missing from the finally block
GPIO_cleanup_skipped ==
  /\ pc = "gpio_cleanup"
  /\ pc' = "stop_stream"
  /\ UNCHANGED <<heard, model_path_exists, pin_mode, led, gpio_log, recognizer, p, stream,
                 captured, data, fed, event, result, command_text, exc, primary,
                 cleanup_log, exit_status>>

\* line 115: GPIO.cleanup() returns every channel used to input mode, so the
\* LED is no longer driven
GPIO_cleanup ==
  /\ pc = "gpio_cleanup"
  /\ cleanup_log' = Append(cleanup_log, "GPIO.cleanup")
  /\ pin_mode' = "IN"
  /\ led' = "LOW"
  /\ pc' = "stop_stream"
  /\ UNCHANGED <<heard, model_path_exists, gpio_log, recognizer, p, stream, captured, data,
                 fed, event, result, command_text, exc, primary, exit_status>>

\* line 116: stream.stop_stream() stops the stream, or raises
stop_stream ==
  /\ pc = "stop_stream"
  /\ cleanup_log' = Append(cleanup_log, "stop_stream")
  /\ \/ /\ stream' = "stopped"
        /\ pc' = "close"
        /\ UNCHANGED <<exc, exit_status>>
     \/ /\ RaiseInFinally
        /\ UNCHANGED stream
  /\ UNCHANGED <<heard, model_path_exists, pin_mode, led, gpio_log, recognizer, p, captured,
                 data, fed, event, result, command_text, primary>>

\* line 117: stream.close() releases the device, or raises
stream_close ==
  /\ pc = "close"
  /\ cleanup_log' = Append(cleanup_log, "close")
  /\ \/ /\ stream' = "closed"
        /\ pc' = "terminate"
        /\ UNCHANGED <<exc, exit_status>>
     \/ /\ RaiseInFinally
        /\ UNCHANGED stream
  /\ UNCHANGED <<heard, model_path_exists, pin_mode, led, gpio_log, recognizer, p, captured,
                 data, fed, event, result, command_text, primary>>

\* line 118: p.terminate() releases PortAudio, or raises
terminate ==
  /\ pc = "terminate"
  /\ cleanup_log' = Append(cleanup_log, "terminate")
  /\ \/ /\ p' = "terminated"
        /\ pc' = "exiting"
        /\ UNCHANGED <<exc, exit_status>>
     \/ /\ RaiseInFinally
        /\ UNCHANGED p
  /\ UNCHANGED <<heard, model_path_exists, pin_mode, led, gpio_log, recognizer, stream,
                 captured, data, fed, event, result, command_text, primary>>

\* variant of exiting: the try statement sits inside the while loop, so the
\* loop goes on after the finally block
exiting_continues ==
  /\ pc = "exiting"
  /\ pc' = "read"
  /\ UNCHANGED <<heard, model_path_exists, pin_mode, led, gpio_log, recognizer, p, stream,
                 captured, data, fed, event, result, command_text, exc, primary,
                 cleanup_log, exit_status>>

\* line 119, then main() returns or the pending exception leaves it
exiting ==
  /\ pc = "exiting"
  /\ exit_status' = IF exc = "none" THEN "ok" ELSE exc
  /\ pc' = "done"
  /\ UNCHANGED <<heard, model_path_exists, pin_mode, led, gpio_log, recognizer, p, stream,
                 captured, data, fed, event, result, command_text, exc, primary,
                 cleanup_log>>

Next ==
  \/ setup_gpio
  \/ setup_recognizer
  \/ setup_audio_stream
  \/ print_listening
  \/ stream_read
  \/ check_len
  \/ AcceptWaveform
  \/ Result
  \/ dispatch
  \/ PartialResult
  \/ KeyboardInterrupt
  \/ except_KeyboardInterrupt
  \/ GPIO_cleanup
  \/ stop_stream
  \/ stream_close
  \/ terminate
  \/ exiting

Spec == Init /\ [][Next]_vars

TypeOK ==
  /\ pc \in SetupPcs \cup TryPcs \cup FinallyPcs \cup {"except", "done"}
  /\ led \in {"LOW", "HIGH"}
  /\ pin_mode \in {"IN", "OUT"}
  /\ data \in 0..Len(captured)
  /\ Len(captured) <= MaxFrames
  /\ heard \in 0..3

(* ======================= properties of the pipeline ==================== *)
On == <<"o", "n">>
Off == <<"o", "f", "f">>

\* w occurs in s as a contiguous run of characters
Occurs(w, s) ==
  \E i \in 1..Len(s) :
    /\ i + Len(w) - 1 <= Len(s)
    /\ \A j \in 1..Len(w) : s[i + j - 1] = w[j]

Last(s) == s[Len(s)]

\* indices of the non-empty frames among the first n captured, in capture order
RECURSIVE NonEmptyUpTo(_)
NonEmptyUpTo(n) ==
  IF n = 0 THEN <<>>
  ELSE IF captured[n] # 0 THEN Append(NonEmptyUpTo(n - 1), n)
  ELSE NonEmptyUpTo(n - 1)

FullCleanup == <<"GPIO.cleanup", "stop_stream", "close", "terminate">>

\* C1: inside the loop the LED is written only by the dispatch of an iteration
\* whose recognizer outcome is Final; an iteration whose outcome is Partial
\* makes no GPIO.output call and leaves the LED as it was.
C1_OnlyFinalWritesActuator ==
  [][ /\ (pc \in TryPcs /\ (gpio_log' # gpio_log \/ led' # led))
          => (event = "Final" /\ pc = "handle_command")
      /\ (pc \in TryPcs /\ event = "Partial")
          => (led' = led /\ gpio_log' = gpio_log) ]_vars

\* C1 witness: a Partial iteration whose text holds "on" has ended and the
\* LED still has the HIGH level of an earlier Final.
C1_Witness ==
  /\ pc = "read"
  /\ event = "Partial"
  /\ Occurs(On, result)
  /\ led = "HIGH"
  /\ Len(gpio_log) = 2

\* C2: for the text of a Final result as the dispatcher sees it (lowercased):
\* if it contains "on" the LED is set HIGH, otherwise if it contains "off" the
\* LED is set LOW, otherwise no GPIO.output call is made; the match is a
\* substring match.
C2_DispatchRule ==
  [][ (pc = "handle_command" /\ pc' = "read") =>
        LET t == Lower(TextOf(result)) IN
          IF Occurs(On, t)
            THEN led' = "HIGH" /\ gpio_log' = Append(gpio_log, "HIGH")
            ELSE IF Occurs(Off, t)
                   THEN led' = "LOW" /\ gpio_log' = Append(gpio_log, "LOW")
                   ELSE led' = led /\ gpio_log' = gpio_log ]_vars

\* C2 witness: "onion soup" has been dispatched and the LED went from LOW to HIGH.
C2_Witness ==
  /\ pc = "read"
  /\ event = "Final"
  /\ TextOf(result) = <<"o","n","i","o","n"," ","s","o","u","p">>
  /\ gpio_log = <<"LOW", "HIGH">>
  /\ led = "HIGH"

\* C3 (as stated): on every exit from the loop the shutdown sequence has run
\* exactly once and in order: LED forced LOW, audio stream closed, recognizer
\* handle released.
C3_ShutdownSequenceOnEveryExit ==
  (pc = "done" /\ primary # "none") =>
    /\ cleanup_log = FullCleanup
    /\ led = "LOW"
    /\ stream = "closed"
    /\ recognizer = "released"

C5_NoActuatorCallOnMissingModel ==
  ~model_path_exists =>
    /\ pc \notin TryPcs
    /\ (pc = "done" /\ exc # "KeyboardInterrupt") =>
         (exit_status = "FileNotFoundError" /\ gpio_log = <<>>)

\* C5 (amended): with a missing model path the loop is never entered, the
\* only GPIO.output call of the run is setup_gpio's initial LOW, and a run
\* that reaches the path check ends with FileNotFoundError.
C5_OnlyInitialLowOnMissingModel ==
  ~model_path_exists =>
    /\ pc \notin TryPcs \cup FinallyPcs \cup {"except"}
    /\ gpio_log \in {<<>>, <<"LOW">>}
    /\ led = "LOW"
    /\ (pc = "done" /\ exc # "KeyboardInterrupt") =>
         (exit_status = "FileNotFoundError" /\ gpio_log = <<"LOW">>)

\* C5 witness: the run with a missing model path has ended.
C5_Witness ==
  /\ ~model_path_exists
  /\ pc = "done"
  /\ exit_status = "FileNotFoundError"
  /\ gpio_log = <<"LOW">>

\* C6: an empty frame is never passed to AcceptWaveform and never changes the
\* LED; handling it raises nothing and leads back to the read.
C6_EmptyFrameSkipped ==
  /\ [](\A i \in 1..Len(fed) : captured[fed[i]] # 0)
  /\ [][ (pc = "check_len" /\ captured[data] = 0) =>
           /\ fed' = fed
           /\ led' = led
           /\ gpio_log' = gpio_log
           /\ exc' \in {"none", "KeyboardInterrupt"}
           /\ (exc' = "none" => (pc' = "read" /\ event' = "Skip")) ]_vars

\* C6 witness: an empty frame was skipped while the LED was HIGH.
C6_Witness ==
  /\ pc = "read"
  /\ event = "Skip"
  /\ led = "HIGH"
  /\ Len(fed) < Len(captured)

\* C7 (as stated): the finally block never raises; when one of its calls
\* fails the remaining calls are still made and the run reports what ended
\* the loop.
C7_ShutdownNeverRaises ==
  /\ exc # "CleanupError"
  /\ (pc = "done" /\ cleanup_log # <<>>) =>
       /\ Len(cleanup_log) = Len(FullCleanup)
       /\ exit_status \in {"ok", primary}

\* C8 (as stated): once the audio device has been claimed, the stream is
\* closed and PortAudio released by the time the run ends, however it ends.
C8_AudioReleasedOnEveryExit ==
  (pc = "done" /\ stream # "none") => (stream = "closed" /\ p = "terminated")

\* C9: every non-empty frame is passed to AcceptWaveform exactly once, in the
\* iteration that read it and before the next read: at each read the frames
\* fed are exactly the non-empty frames captured, in capture order, and
\* within an iteration only the frame in hand is still to be fed.
C9_FramesFedInCaptureOrder ==
  /\ pc \in {"read", "result", "handle_command", "partial_result"}
       => fed = NonEmptyUpTo(Len(captured))
  /\ pc \in {"check_len", "accept"}
       => (data = Len(captured) /\ fed = NonEmptyUpTo(Len(captured) - 1))
  /\ Len(fed) <= Len(NonEmptyUpTo(Len(captured)))
  /\ fed = SubSeq(NonEmptyUpTo(Len(captured)), 1, Len(fed))
  /\ Len(NonEmptyUpTo(Len(captured))) - Len(fed) <= 1

\* C9 witness: three frames were read, the second one empty, and the first
\* and the third have been fed.
C9_Witness ==
  /\ pc = "read"
  /\ Len(captured) = 3
  /\ fed = <<1, 3>>

\* C10 (as stated): a failure of the read or of the recognizer stops the loop,
\* the shutdown sequence runs and the run ends with that failure; an operator
\* interrupt runs the same sequence and the run ends normally.
C10_FatalErrorThenShutdown ==
  /\ primary \in {"ReadError", "RecognizerError"} =>
       /\ pc \notin TryPcs
       /\ pc = "done" => (cleanup_log = FullCleanup /\ exit_status = primary)
  /\ primary = "KeyboardInterrupt" =>
       /\ pc \notin TryPcs
       /\ pc = "done" => (cleanup_log = FullCleanup /\ exit_status = "ok")

\* the letters that have two cases in the texts, as <<lowercase, uppercase>>
CasePairs == {<<"o", "O">>, <<"n", "N">>, <<"f", "F">>, <<"t", "T">>}

\* s and t differ only in letter case
SameUpToCase(s, t) ==
  /\ Len(s) = Len(t)
  /\ \A i \in 1..Len(s) :
       \/ s[i] = t[i]
       \/ <<s[i], t[i]>> \in CasePairs
       \/ <<t[i], s[i]>> \in CasePairs

\* C11: the effect of dispatching a Final text depends only on its lowercase
\* form: the step taken for a text is the step handle_command takes for every
\* text that differs from it only in letter case.
C11_DispatchIgnoresCase ==
  [][ (pc = "handle_command" /\ pc' = "read") =>
        \A t \in FinalTexts :
          SameUpToCase(t, TextOf(result)) => handle_command(Lower(ResultJson(t))) ]_vars

\* C11 witness: "Turn ON the light" has been dispatched and the LED is HIGH.
C11_Witness ==
  /\ pc = "read"
  /\ event = "Final"
  /\ TextOf(result) =
       <<"T","u","r","n"," ","O","N"," ","t","h","e"," ","l","i","g","h","t">>
  /\ command_text # result
  /\ led = "HIGH"

\* C12: a dispatch has no toggle semantics: the level after a GPIO.output call
\* of the loop is the level written, whatever the level before; in particular
\* HIGH written while HIGH leaves HIGH and LOW written while LOW leaves LOW.
C12_NoToggle ==
  [][ (pc = "handle_command" /\ gpio_log' # gpio_log) =>
        /\ gpio_log' = Append(gpio_log, led')
        /\ led' = (IF Occurs(On, command_text') THEN "HIGH" ELSE "LOW") ]_vars

\* C12 witness: TurnOn was dispatched twice in a row and the LED is HIGH.
C12_Witness ==
  /\ pc = "read"
  /\ event = "Final"
  /\ gpio_log = <<"LOW", "HIGH", "HIGH">>
  /\ led = "HIGH"

\* C13: when the recognizer reports Partial("turn"), Partial("turn on") and
\* then Final("turn on the light"), no step from the first Partial up to the
\* dispatch of the Final changes the LED or calls GPIO.output, and the
\* dispatch of the Final makes exactly one call, GPIO.output(HIGH).
C13_TurnOnTheLightScenario ==
  [][ /\ (heard' \in {1, 2} /\ pc' \in TryPcs)
          => (led' = led /\ gpio_log' = gpio_log)
      /\ (heard = 2 /\ heard' = 3)
          => (led' = "HIGH" /\ gpio_log' = Append(gpio_log, "HIGH")) ]_vars

\* C13 witness: the three events have happened after startup, and the only
\* call since the initial LOW is the HIGH of the Final.
C13_Witness ==
  /\ heard = 3
  /\ pc = "read"
  /\ gpio_log = <<"LOW", "HIGH">>
  /\ led = "HIGH"

\* C14 (as stated): an operator interrupt while the loop runs stops the loop
\* and the shutdown sequence then completes: by the end of the run the pin is
\* released, the stream closed and PortAudio terminated.
C14_CancellationCompletesShutdown ==
  primary = "KeyboardInterrupt" =>
    /\ pc \notin TryPcs
    /\ pc = "done" => (pin_mode = "IN" /\ stream = "closed" /\ p = "terminated")

\* first character of the key of a Result() / PartialResult() document
DocKey(r) == r[6]

\* C15: an iteration that feeds a frame fetches exactly one outcome: Result()
\* only where AcceptWaveform reported a completed utterance, PartialResult()
\* only where it did not, at most one fetch per iteration, and an iteration
\* that runs to its end has made one.
C15_OneOutcomePerIteration ==
  [][ /\ (result' # result /\ result' # <<>>) =>
           /\ result = <<>>
           /\ pc \in {"result", "partial_result"}
           /\ (pc = "result") <=> (event = "Final")
           /\ (pc = "partial_result") <=> (event = "Partial")
           /\ DocKey(result') = (IF event = "Final" THEN "t" ELSE "p")
      /\ (pc \in {"result", "handle_command", "partial_result"} /\ pc' = "read") =>
           /\ result' # <<>>
           /\ DocKey(result') = (IF event' = "Final" THEN "t" ELSE "p") ]_vars

\* C15 witness: two frames were fed, the second gave a partial result.
C15_Witness ==
  /\ pc = "read"
  /\ Len(fed) = 2
  /\ event = "Partial"
  /\ result # <<>>
  /\ DocKey(result) = "p"

C17_OnTakesPrecedence ==
  [][ (pc = "handle_command" /\ pc' = "read"
       /\ Occurs(On, Lower(TextOf(result))) /\ Occurs(Off, Lower(TextOf(result))))
        => (led' = "HIGH" /\ gpio_log' = Append(gpio_log, "HIGH")) ]_vars

\* C17 witness: "off on", with "off" first, has been dispatched and the LED is HIGH.
C17_Witness ==
  /\ pc = "read"
  /\ event = "Final"
  /\ TextOf(result) = <<"o","f","f"," ","o","n">>
  /\ led = "HIGH"
  /\ Last(gpio_log) = "HIGH"

\* C18: once the finally block has been entered the run stays in it until it
\* ends: no frame is read, none is fed, no dispatch writes the LED; and once
\* the stream is closed nothing is done with it.
C18_NothingAfterShutdownBegins ==
  [][ /\ pc \in FinallyPcs \cup {"done"} =>
           /\ pc' \in FinallyPcs \cup {"done"}
           /\ captured' = captured
           /\ fed' = fed
           /\ gpio_log' = gpio_log
      /\ stream = "closed" =>
           /\ stream' = "closed"
           /\ cleanup_log' \in {cleanup_log, Append(cleanup_log, "terminate")} ]_vars

\* C18 witness: a run that fed a frame and switched the LED on has ended with
\* the whole finally block executed.
C18_Witness ==
  /\ pc = "done"
  /\ cleanup_log = FullCleanup
  /\ stream = "closed"
  /\ Len(fed) >= 1
  /\ Last(gpio_log) = "HIGH"

====
